---- MODULE Spec2Model ----
(***************************************************************************)
(* TotoBot.py: a Telegram bot that keeps the next TOTO draw (jackpot text  *)
(* and draw-time text) in an SQLite table, scrapes the Singapore Pools     *)
(* page when the stored draw is missing or past, and broadcasts the draw   *)
(* to every subscriber on a cron schedule and on an admin command.         *)
(*                                                                         *)
(* Texts are sequences of tokens (a word, a number, one punctuation mark   *)
(* or one blank), so that the clean-up and the parse of is_past_draw are   *)
(* computed on the text and not assumed.  Python's None is the one-token   *)
(* text None, the empty string is the empty sequence.                      *)
(***************************************************************************)
EXTENDS Integers, Sequences, FiniteSets, TLC

\* chat ids are 1..MaxChat
MaxChat == 2

None == <<"None">>
Empty == <<>>

\* Python truthiness of an optional string
Truthy(x) == x # None /\ x # Empty

(***************************************************************************)
(* The texts the page can show.                                            *)
(***************************************************************************)
\* "Mon, 01 Jan 2024 , 6.30pm" as the page prints it
D1 == <<"Mon", ",", " ", "01", " ", "Jan", " ", "2024", " ", ",", " ", "6", ".", "30", "pm">>
\* "Thu, 04 Jan 2024, 6:30pm"
D4 == <<"Thu", ",", " ", "04", " ", "Jan", " ", "2024", ",", " ", "6", ":", "30", "pm">>
\* a text that is no date
DBad == <<"TBC">>
DrawTexts == {D1, D4, DBad}

JackpotTexts == {<<"$1,000,000">>}

(***************************************************************************)
(* is_past_draw: str.replace / strip on the token text, then strptime with *)
(* the format "%a, %d %b %Y, %I:%M%p".  Instants are minutes since         *)
(* 2024-01-01 00:00; ParseFail stands for the ValueError of strptime.      *)
(***************************************************************************)
ParseFail == -1

\* s.replace(" " + c, c): a blank directly before c is dropped
RECURSIVE ReplaceBlankBefore(_, _)
ReplaceBlankBefore(s, c) ==
    IF Len(s) < 2 THEN s
    ELSE IF s[1] = " " /\ s[2] = c
         THEN <<c>> \o ReplaceBlankBefore(SubSeq(s, 3, Len(s)), c)
         ELSE <<s[1]>> \o ReplaceBlankBefore(Tail(s), c)

\* s.strip()
RECURSIVE Strip(_)
Strip(s) ==
    IF s = <<>> THEN s
    ELSE IF s[1] = " " THEN Strip(Tail(s))
    ELSE IF s[Len(s)] = " " THEN Strip(SubSeq(s, 1, Len(s) - 1))
    ELSE s

\* s.replace(a, b) for one-token a and b
ReplaceTok(s, a, b) == [k \in DOMAIN s |-> IF s[k] = a THEN b ELSE s[k]]

Clean(s) == ReplaceTok(Strip(ReplaceBlankBefore(ReplaceBlankBefore(s, ","), ".")), ".", ":")

\* a blank of the format matches one or more blanks (\s+)
RECURSIVE Collapse(_)
Collapse(s) ==
    IF Len(s) < 2 THEN s
    ELSE IF s[1] = " " /\ s[2] = " " THEN Collapse(Tail(s))
    ELSE <<s[1]>> \o Collapse(Tail(s))

DayNames == {"Mon", "Tue", "Wed", "Thu", "Fri", "Sat", "Sun"}
DayOfMonth == ("01" :> 1) @@ ("04" :> 4)
Months == {"Jan"}
Years == {"2024"}
Hour12 == ("6" :> 6) @@ ("12" :> 12)
Minute == ("30" :> 30) @@ ("00" :> 0)

Strptime(s) ==
    LET c == Collapse(s) IN
    IF /\ Len(c) = 14
       /\ c[1] \in DayNames /\ c[2] = "," /\ c[3] = " "
       /\ c[4] \in DOMAIN DayOfMonth /\ c[5] = " "
       /\ c[6] \in Months /\ c[7] = " "
       /\ c[8] \in Years /\ c[9] = "," /\ c[10] = " "
       /\ c[11] \in DOMAIN Hour12 /\ c[12] = ":"
       /\ c[13] \in DOMAIN Minute /\ c[14] \in {"am", "pm"}
    THEN (DayOfMonth[c[4]] - 1) * 1440
         + ((Hour12[c[11]] % 12) + (IF c[14] = "pm" THEN 12 ELSE 0)) * 60
         + Minute[c[13]]
    ELSE ParseFail

\* a comparison that takes the draw minute itself as past
is_past_draw_due(next_draw_str, t) ==
    LET dt == Strptime(Clean(next_draw_str)) IN
    IF dt = ParseFail THEN TRUE ELSE dt <= t

is_past_draw(next_draw_str, t) ==
    LET dt == Strptime(Clean(next_draw_str)) IN
    IF dt = ParseFail THEN TRUE ELSE dt < t

(***************************************************************************)
(* The nextDraw table: rows in rowid order.  next_draw is the PRIMARY KEY, *)
(* so INSERT OR REPLACE deletes only the row with the same next_draw and   *)
(* the new row gets the largest rowid; SELECT ... LIMIT 1 scans by rowid.  *)
(***************************************************************************)
store_next_draw(tbl, next_draw, jackpot) ==
    Append(SelectSeq(tbl, LAMBDA r : r.next_draw # next_draw),
           [next_draw |-> next_draw, jackpot |-> jackpot])

get_next_draw(tbl) ==
    IF tbl = <<>> THEN None ELSE <<tbl[1].next_draw, tbl[1].jackpot>>

(***************************************************************************)
(* The subscribers table: its rows in rowid order.  chat_id is INTEGER     *)
(* PRIMARY KEY, that is the rowid itself, so the rows are in chat_id order *)
(* and INSERT OR IGNORE skips a chat_id that has a row.  (added_at is      *)
(* never read and is left out.)                                            *)
(***************************************************************************)
Chats == 1 .. MaxChat

\* a plain INSERT into a table without the key
add_subscriber_dup(subs, chat_id) == Append(subs, [chat_id |-> chat_id])

add_subscriber(subs, chat_id) ==
    IF \E j \in DOMAIN subs : subs[j].chat_id = chat_id
    THEN subs
    ELSE SelectSeq(subs, LAMBDA r : r.chat_id < chat_id)
            \o <<[chat_id |-> chat_id]>>
            \o SelectSeq(subs, LAMBDA r : r.chat_id > chat_id)

\* a DELETE that removes nothing
remove_subscriber_kept(subs, chat_id) == subs

remove_subscriber(subs, chat_id) == SelectSeq(subs, LAMBDA r : r.chat_id # chat_id)

\* SELECT chat_id FROM subscribers; [r[0] for r in rows]
list_subscribers(subs) == [j \in DOMAIN subs |-> subs[j].chat_id]

(***************************************************************************)
(* fetch_toto_info_selenium returns (jackpot, next_draw): (None, None)     *)
(* when the driver raises, else the stripped text of the two elements,     *)
(* either of which can be the empty string.                                *)
(***************************************************************************)
FetchFailed == <<None, None>>

\* the fetch fails; it yields a draw (dated, or with a text that is no date);
\* it yields a page whose jackpot or whose draw text is still empty
FetchOutcomes ==
    {FetchFailed} \cup (JackpotTexts \X DrawTexts)
        \cup {<<Empty, D4>>} \cup {<<j, Empty>> : j \in JackpotTexts}

\* a get_data that writes whatever the fetch returned
after_fetch_always(tbl, f) == store_next_draw(tbl, f[2], f[1])

\* a get_data that does not write what it fetched
after_fetch_nostore(tbl, f) == tbl

\* the table after lines 195-200 of get_data, f being what fetch_toto_info returned
after_fetch(tbl, f) ==
    IF Truthy(f[2]) /\ Truthy(f[1]) THEN store_next_draw(tbl, f[2], f[1]) ELSE tbl

\* the condition of line 193
needs_fetch(jackpot, next_draw, t) ==
    ~Truthy(jackpot) \/ ~Truthy(next_draw) \/ is_past_draw(next_draw, t)

\* a get_data that tests what it fetched as it tests a stored row, and drops
\* a fetched draw that is past
get_data_recheck(tbl, t, f) ==
    LET record == get_next_draw(tbl)
        jackpot == IF record # None THEN record[2] ELSE None
        next_draw == IF record # None THEN record[1] ELSE None
    IN  IF needs_fetch(jackpot, next_draw, t)
        THEN IF needs_fetch(f[1], f[2], t)
             THEN [ret |-> FetchFailed, table |-> tbl, record |-> record,
                   fetched |-> <<f>>, reads |-> 1]
             ELSE [ret |-> f, table |-> after_fetch(tbl, f), record |-> record,
                   fetched |-> <<f>>, reads |-> 1]
        ELSE [ret |-> <<jackpot, next_draw>>, table |-> tbl, record |-> record,
              fetched |-> <<>>, reads |-> 1]

\* get_data at local time t, f being the outcome of the fetch should it run.
\* ret is what it returns, table the table it leaves, record the row it read,
\* fetched the results of its fetch_toto_info calls in order, reads the number
\* of its get_next_draw calls.
get_data(tbl, t, f) ==
    LET record == get_next_draw(tbl)
        jackpot == IF record # None THEN record[2] ELSE None
        next_draw == IF record # None THEN record[1] ELSE None
    IN  IF needs_fetch(jackpot, next_draw, t)
        THEN [ret |-> f, table |-> after_fetch(tbl, f), record |-> record,
              fetched |-> <<f>>, reads |-> 1]
        ELSE [ret |-> <<jackpot, next_draw>>, table |-> tbl, record |-> record,
              fetched |-> <<>>, reads |-> 1]

(***************************************************************************)
(* Message texts.  "x or y" of Python is PyOr.                             *)
(***************************************************************************)
\* a caller that formats the field as it is
PyOr_raw(x, y) == x

PyOr(x, y) == IF Truthy(x) THEN x ELSE y

NA == <<"N/A">>
NotAvailable == <<"(not available)">>

\* line 232: the /status reply
status_text(d) == <<"status", PyOr(d[1], NA), PyOr(d[2], NA)>>

\* lines 248 and 260: the broadcast message
update_message(d) == <<"TOTO Update", PyOr(d[1], NotAvailable), PyOr(d[2], NotAvailable)>>

(***************************************************************************)
(* _is_admin: "raise" is the AttributeError of None.lower().               *)
(***************************************************************************)
LowerTok == ("TotoAdmin" :> "totoadmin") @@ ("totoadmin" :> "totoadmin") @@ ("bob" :> "bob")
Lower(s) == [k \in DOMAIN s |-> LowerTok[s[k]]]

Usernames == {None, <<"TotoAdmin">>, <<"bob">>}
AdminSettings == {None, <<"totoadmin">>}

\* a check that lets every user pass
is_admin_open(uname, admin) == "yes"

is_admin(uname, admin) ==
    IF ~Truthy(uname) THEN "no"
    ELSE IF admin = None THEN "raise"
    ELSE IF Lower(uname) = Lower(admin) THEN "yes" ELSE "no"

(***************************************************************************)
(* State.                                                                  *)
(***************************************************************************)
VARIABLES
    ADMIN_USERNAME, \* os.getenv("ADMIN_USERNAME")
    subscribers,    \* table subscribers, rows in rowid order
    nextDraw,       \* table nextDraw, rows in rowid order
    now,            \* datetime.now(): the host's local time, in minutes
    task,           \* the two broadcasts: "cmd" is broadcast_cmd, "job" is send_toto_update
    reply,          \* the last reply of listsubs_cmd or of a refused broadcast_cmd, or Raised
    call,           \* the last get_data call: what it read, fetched and returned
    held,           \* the last complete draw get_data returned in this process
    lastWritten,    \* the arguments of the last store_next_draw call
    fetching,       \* the callers whose get_data is inside fetch_toto_info
    joined,         \* the chats subscribed since nextDraw was last written, and still subscribed
    gone            \* the chats unsubscribed and not subscribed again

vars == <<ADMIN_USERNAME, subscribers, nextDraw, now, task, reply, call, held, lastWritten,
          fetching, joined, gone>>

Tasks == {"cmd", "job"}
\* pc: where the broadcast is; subs, i: the list and the index of its loop;
\* log: its send_message calls, <<chat_id, did not raise>>; report: what it
\* hands back when done (broadcast_cmd its reply, send_toto_update nothing)
NoReport == [none |-> 0]
Idle == [pc |-> "idle", subs |-> <<>>, i |-> 1, log |-> <<>>, report |-> NoReport]
NoReply == <<>>
Raised == <<"raised">>
NoCall == [who |-> "none", record |-> None, fetched |-> <<>>, reads |-> 0,
           ret |-> FetchFailed, text |-> <<>>, storeFresh |-> FALSE,
           heldBefore |-> None, heldFresh |-> FALSE]

\* a draw with both fields, not past at time t
Fresh(jackpot, next_draw, t) == ~needs_fetch(jackpot, next_draw, t)

\* the draw instants of the page's texts, and the minute after each
NowPoints ==
    {0} \cup UNION {{Strptime(Clean(d)), Strptime(Clean(d)) + 1} :
                       d \in {x \in DrawTexts : Strptime(Clean(x)) # ParseFail}}

Init ==
    /\ ADMIN_USERNAME \in AdminSettings
    /\ subscribers = <<>>
    /\ nextDraw = <<>>
    /\ now = 0
    /\ task = [k \in Tasks |-> Idle]
    /\ reply = NoReply
    /\ call = NoCall
    /\ held = None
    /\ lastWritten = None
    /\ fetching = {}
    /\ joined = {}
    /\ gone = {}

\* the clock moves on
Tick ==
    /\ \E t \in NowPoints : t > now /\ now' = t
    /\ UNCHANGED <<ADMIN_USERNAME, subscribers, nextDraw, task, reply, call, held, lastWritten,
                 fetching, joined, gone>>

\* the application handles one update at a time: no command handler starts
\* while broadcast_cmd is still awaiting its sends
CmdFree == task["cmd"].pc # "sending"

\* the state effects of one get_data() call by `who`, g being
\* get_data(nextDraw, now, f) and text what the caller composes from its result
RunGetData(who, g, text) ==
    /\ nextDraw' = g.table
    /\ call' = [who |-> who, record |-> g.record, fetched |-> g.fetched,
                reads |-> g.reads, ret |-> g.ret, text |-> text,
                storeFresh |-> \E k \in DOMAIN nextDraw :
                                  Fresh(nextDraw[k].jackpot, nextDraw[k].next_draw, now),
                heldBefore |-> held,
                heldFresh |-> held # None /\ Fresh(held[1], held[2], now)]
    /\ held' = IF Truthy(g.ret[1]) /\ Truthy(g.ret[2]) THEN g.ret ELSE held
    /\ lastWritten' = IF g.table # nextDraw
                      THEN <<g.table[Len(g.table)].next_draw, g.table[Len(g.table)].jackpot>>
                      ELSE lastWritten
    /\ joined' = IF g.table # nextDraw THEN {} ELSE joined

Subscribed(chat_id) == \E j \in DOMAIN subscribers : subscribers[j].chat_id = chat_id

start_cmd(chat_id) ==
    /\ CmdFree
    /\ subscribers' = add_subscriber(subscribers, chat_id)
    /\ joined' = IF Subscribed(chat_id) THEN joined ELSE joined \cup {chat_id}
    /\ gone' = gone \ {chat_id}
    /\ UNCHANGED <<ADMIN_USERNAME, nextDraw, now, task, reply, call, held, lastWritten,
                 fetching>>

unsubscribe_cmd(chat_id) ==
    /\ CmdFree
    /\ subscribers' = remove_subscriber(subscribers, chat_id)
    /\ joined' = joined \ {chat_id}
    /\ gone' = IF Subscribed(chat_id) THEN gone \cup {chat_id} ELSE gone
    /\ UNCHANGED <<ADMIN_USERNAME, nextDraw, now, task, reply, call, held, lastWritten,
                 fetching>>

status_cmd(f) ==
    /\ CmdFree
    /\ LET g == get_data(nextDraw, now, f) IN RunGetData("status", g, status_text(g.ret))
    /\ UNCHANGED <<ADMIN_USERNAME, subscribers, now, task, reply, fetching, gone>>

listsubs_cmd(uname) ==
    /\ CmdFree
    /\ reply' = CASE is_admin(uname, ADMIN_USERNAME) = "no" -> <<"Unauthorized.">>
                  [] is_admin(uname, ADMIN_USERNAME) = "raise" -> Raised
                  [] OTHER -> <<"Subscribers", list_subscribers(subscribers)>>
    /\ UNCHANGED <<ADMIN_USERNAME, subscribers, nextDraw, now, task, call, held, lastWritten,
                 fetching, joined, gone>>

\* a broadcast that sends to the list as it was when nextDraw was last written
Sending_cached(subs) ==
    [pc |-> "sending",
     subs |-> list_subscribers(SelectSeq(subs, LAMBDA r : r.chat_id \notin joined)),
     i |-> 1, log |-> <<>>, report |-> NoReport]

\* a broadcast that has read the subscribers and enters its send loop
Sending(subs) ==
    [pc |-> "sending", subs |-> list_subscribers(subs), i |-> 1, log |-> <<>>,
     report |-> NoReport]

\* broadcast_cmd refused at line 246
broadcast_cmd_refused(uname) ==
    /\ CmdFree
    /\ is_admin(uname, ADMIN_USERNAME) # "yes"
    /\ reply' = IF is_admin(uname, ADMIN_USERNAME) = "no" THEN <<"Unauthorized.">> ELSE Raised
    /\ UNCHANGED <<ADMIN_USERNAME, subscribers, nextDraw, now, task, call, held, lastWritten,
                 fetching, joined, gone>>

\* broadcast_cmd, lines 246-249: up to the first send
broadcast_cmd(uname, f) ==
    /\ CmdFree
    /\ is_admin(uname, ADMIN_USERNAME) = "yes"
    /\ LET g == get_data(nextDraw, now, f) IN RunGetData("cmd", g, update_message(g.ret))
    /\ task' = [task EXCEPT !["cmd"] = Sending(subscribers)]
    /\ UNCHANGED <<ADMIN_USERNAME, subscribers, now, reply, fetching, gone>>

\* send_toto_update, lines 259-261: the scheduler runs one instance at a time
send_toto_update(f) ==
    /\ task["job"].pc # "sending"
    /\ LET g == get_data(nextDraw, now, f) IN RunGetData("job", g, update_message(g.ret))
    /\ task' = [task EXCEPT !["job"] = Sending(subscribers)]
    /\ UNCHANGED <<ADMIN_USERNAME, subscribers, now, reply, fetching, gone>>

\* a loop that a raising send leaves
next_index_abort(i, n, ok) == IF ok THEN i + 1 ELSE n + 1

\* the loop index after the send to subs[i] raised (ok = FALSE) or not:
\* `except: continue` and `except Exception: print` both go on with the next
next_index(i, n, ok) == i + 1

\* one iteration of the send loop of task k: await bot.send_message
send_message(k, ok) ==
    /\ task[k].pc = "sending"
    /\ task[k].i <= Len(task[k].subs)
    /\ task' = [task EXCEPT ![k].log = Append(@, <<task[k].subs[task[k].i], ok>>),
                            ![k].i = next_index(@, Len(task[k].subs), ok)]
    /\ UNCHANGED <<ADMIN_USERNAME, subscribers, nextDraw, now, reply, call, held, lastWritten,
                 fetching, joined, gone>>

\* line 253: "Broadcast sent to {len(subs)} subscribers."
broadcast_report(subs, log) == [sent_to |-> Len(subs)]

\* the reply that ends broadcast_cmd
broadcast_reply ==
    /\ task["cmd"].pc = "sending"
    /\ task["cmd"].i > Len(task["cmd"].subs)
    /\ task' = [task EXCEPT !["cmd"].pc = "done",
                            !["cmd"].report = broadcast_report(task["cmd"].subs, task["cmd"].log)]
    /\ UNCHANGED <<ADMIN_USERNAME, subscribers, nextDraw, now, reply, call, held, lastWritten,
                 fetching, joined, gone>>

\* send_toto_update falls off its loop and returns None
job_return ==
    /\ task["job"].pc = "sending"
    /\ task["job"].i > Len(task["job"].subs)
    /\ task' = [task EXCEPT !["job"].pc = "done"]
    /\ UNCHANGED <<ADMIN_USERNAME, subscribers, nextDraw, now, reply, call, held, lastWritten,
                 fetching, joined, gone>>

(***************************************************************************)
(* The fetch as a span of time.  get_data is a plain def called from the   *)
(* coroutines: from line 186 to line 202 nothing is awaited, and the       *)
(* driver.get and time.sleep(3) of the fetch keep the thread of the event  *)
(* loop, so no other handler and no job runs until get_data has returned.  *)
(***************************************************************************)
Callers == {"status", "cmd", "job"}

\* a fetch that is awaited gives the loop to the other coroutines
loop_held_async(fl) == FALSE

\* the event loop is inside a get_data call
loop_held(fl) == fl # {}

\* line 193 on the row get_next_draw returns now
StoreStale ==
    LET record == get_next_draw(nextDraw)
    IN  IF record = None THEN TRUE ELSE needs_fetch(record[2], record[1], now)

\* w may be called: the job runs one instance, the application one command
\* handler, and /broadcast passes line 246 for the admin only
CallerFree(w) ==
    IF w = "job"
    THEN task["job"].pc # "sending" /\ "job" \notin fetching
    ELSE /\ CmdFree /\ fetching \cap {"status", "cmd"} = {}
         /\ w = "cmd" => \E u \in Usernames : is_admin(u, ADMIN_USERNAME) = "yes"

\* lines 186-195: w calls get_data, which finds nothing fresh and enters the fetch
fetch_start(w) ==
    /\ ~loop_held(fetching)
    /\ CallerFree(w)
    /\ StoreStale
    /\ fetching' = fetching \cup {w}
    /\ UNCHANGED <<ADMIN_USERNAME, subscribers, nextDraw, now, task, reply, call, held,
                 lastWritten, joined, gone>>

\* lines 195-202 and the caller up to its first await: the fetch returns f
fetch_finish(w, f) ==
    /\ w \in fetching
    /\ LET g == get_data(nextDraw, now, f)
       IN  RunGetData(w, g, IF w = "status" THEN status_text(g.ret) ELSE update_message(g.ret))
    /\ task' = IF w = "status" THEN task ELSE [task EXCEPT ![w] = Sending(subscribers)]
    /\ fetching' = fetching \ {w}
    /\ UNCHANGED <<ADMIN_USERNAME, subscribers, now, reply, gone>>

\* w calls get_data, which serves the stored row without a fetch
served_from_store(w) ==
    /\ ~loop_held(fetching)
    /\ ~StoreStale
    /\ CASE w = "status" -> status_cmd(FetchFailed)
         [] w = "cmd" -> \E u \in Usernames : broadcast_cmd(u, FetchFailed)
         [] OTHER -> send_toto_update(FetchFailed)

\* the whole program
Next ==
    \/ Tick
    \/ \E c \in Chats : start_cmd(c)
    \/ \E c \in Chats : unsubscribe_cmd(c)
    \/ \E f \in FetchOutcomes : status_cmd(f)
    \/ \E u \in Usernames : listsubs_cmd(u)
    \/ \E u \in Usernames : broadcast_cmd_refused(u)
    \/ \E u \in Usernames, f \in FetchOutcomes : broadcast_cmd(u, f)
    \/ \E f \in FetchOutcomes : send_toto_update(f)
    \/ \E k \in Tasks, ok \in BOOLEAN : send_message(k, ok)
    \/ broadcast_reply
    \/ job_return

Spec == Init /\ [][Next]_vars

(***************************************************************************)
(* The draw cache and the fan-out share no state: get_data reads and       *)
(* writes nextDraw and the clock only, the send loops read subscribers     *)
(* only.  Each is checked in the program restricted to its half.           *)
(*                                                                         *)
(* SpecCache: every caller of get_data with every fetch outcome at every   *)
(* time, nobody subscribed.                                                *)
(* SpecFanout: every subscription change and every send outcome, the page  *)
(* unreachable and the clock at rest.                                      *)
(***************************************************************************)
NextCache ==
    \/ Tick
    \/ \E f \in FetchOutcomes : status_cmd(f)
    \/ \E u \in Usernames, f \in FetchOutcomes : broadcast_cmd(u, f)
    \/ \E f \in FetchOutcomes : send_toto_update(f)
    \/ broadcast_reply
    \/ job_return

SpecCache == Init /\ [][NextCache]_vars

NextFanout ==
    \/ \E c \in Chats : start_cmd(c)
    \/ \E c \in Chats : unsubscribe_cmd(c)
    \/ \E u \in Usernames : broadcast_cmd(u, FetchFailed)
    \/ send_toto_update(FetchFailed)
    \/ \E k \in Tasks, ok \in BOOLEAN : send_message(k, ok)
    \/ broadcast_reply
    \/ job_return

SpecFanout == Init /\ [][NextFanout]_vars

\* SpecLoop: the callers of get_data with the fetch as a span of time
NextLoop ==
    \/ Tick
    \/ \E w \in Callers : fetch_start(w)
    \/ \E w \in Callers, f \in FetchOutcomes : fetch_finish(w, f)
    \/ \E w \in Callers : served_from_store(w)
    \/ ~loop_held(fetching) /\ broadcast_reply
    \/ ~loop_held(fetching) /\ job_return

SpecLoop == Init /\ [][NextLoop]_vars

(***************************************************************************)
(* SpecSubs: every new subscription between and during broadcasts whose    *)
(* get_data fetches a coming draw, a draw without a date, or fails; the     *)
(* sends do not raise and the clock is at rest.                            *)
(***************************************************************************)
SubsOutcomes == {FetchFailed} \cup (JackpotTexts \X {D4, DBad})

NextSubs ==
    \/ \E c \in Chats : start_cmd(c)
    \/ \E u \in Usernames, f \in SubsOutcomes : broadcast_cmd(u, f)
    \/ \E f \in SubsOutcomes : send_toto_update(f)
    \/ \E k \in Tasks : send_message(k, TRUE)
    \/ broadcast_reply
    \/ job_return

SpecSubs == Init /\ [][NextSubs]_vars

(***************************************************************************)

(* SpecAdmin: /listsubs and /broadcast from every user, with and without   *)
(* an admin configured, over every subscription change.                    *)
(***************************************************************************)
NextAdmin ==
    \/ \E c \in Chats : start_cmd(c)
    \/ \E c \in Chats : unsubscribe_cmd(c)
    \/ \E u \in Usernames : listsubs_cmd(u)
    \/ \E u \in Usernames : broadcast_cmd_refused(u)
    \/ \E u \in Usernames, f \in SubsOutcomes : broadcast_cmd(u, f)
    \/ \E ok \in BOOLEAN : send_message("cmd", ok)
    \/ broadcast_reply

SpecAdmin == Init /\ [][NextAdmin]_vars

(***************************************************************************)

(* Properties.                                                             *)
(***************************************************************************)
Called == call.who # "none"
Complete(d) == Truthy(d[1]) /\ Truthy(d[2])
\* the row get_data read, as the (jackpot, next_draw) pair it returns
RecordDraw == <<call.record[2], call.record[1]>>
Rows(tbl) == {<<tbl[k].jackpot, tbl[k].next_draw>> : k \in DOMAIN tbl}
Outcomes(log, ok) == Cardinality({j \in DOMAIN log : log[j][2] = ok})

\* C1: when get_data read a stored draw, found it stale and its fetch failed,
\* it returns that stored draw.
C1_StaleKeptOnFetchFailure ==
    (Called /\ call.record # None /\ call.fetched = <<FetchFailed>>)
        => call.ret = RecordDraw

\* C2: get_next_draw returns the pair of the most recent store_next_draw call,
\* and nothing only when nothing was ever written.
C2_LatestWriteRead ==
    get_next_draw(nextDraw) = lastWritten

\* C3: when the store held a complete draw that was not past, get_data returned
\* a stored draw and did not fetch.
C3_FreshStoreNoFetch ==
    (Called /\ call.storeFresh)
        => (call.fetched = <<>> /\ call.ret \in Rows(nextDraw) /\ call.ret = RecordDraw)

\* C4: when the store held no draw or only past ones, get_data fetched exactly
\* once, and a fetch that yielded a complete draw left that draw written to the
\* store and returned.
C4_OneFetchThenStored ==
    (Called /\ ~call.storeFresh)
        => /\ Len(call.fetched) = 1
           /\ Complete(call.fetched[1])
                => /\ call.fetched[1] \in Rows(nextDraw)
                   /\ lastWritten = <<call.fetched[1][2], call.fetched[1][1]>>
                   /\ call.ret = call.fetched[1]

C4_Witness ==
    /\ Called /\ ~call.storeFresh /\ call.record # None
    /\ Len(call.fetched) = 1 /\ Complete(call.fetched[1])
    /\ Len(nextDraw) = 2

\* C5: a broadcast makes its sends in the order of the list it read, one per
\* entry whatever the earlier sends did, and when it is done every listed
\* recipient has had exactly one.
C5_EachRecipientOnce ==
    \A k \in Tasks :
        /\ task[k].pc # "idle"
             => /\ Len(task[k].log) = task[k].i - 1
                /\ Len(task[k].log) <= Len(task[k].subs)
                /\ \A j \in DOMAIN task[k].log : task[k].log[j][1] = task[k].subs[j]
        /\ task[k].pc = "done"
             => \A c \in Chats :
                   Cardinality({j \in DOMAIN task[k].log : task[k].log[j][1] = c})
                     = Cardinality({j \in DOMAIN task[k].subs : task[k].subs[j] = c})

C5_Witness ==
    \E k \in Tasks :
        /\ task[k].pc = "done" /\ Len(task[k].subs) = MaxChat
        /\ task[k].log[1][2] = FALSE /\ Len(task[k].log) = MaxChat

\* C6: a finished broadcast hands back the counts attempted, succeeded and failed.
C6_DeliveryReport ==
    \A k \in Tasks :
        task[k].pc = "done"
          => task[k].report = [attempted |-> Len(task[k].subs),
                               succeeded |-> Outcomes(task[k].log, TRUE),
                               failed |-> Outcomes(task[k].log, FALSE)]

\* C7: when a complete draw returned earlier in the process is still not past,
\* get_data returns it without reading the store and without fetching.
C7_MemoryTierShortCircuit ==
    (Called /\ call.heldFresh)
        => (call.ret = call.heldBefore /\ call.reads = 0 /\ call.fetched = <<>>)

\* C8: table nextDraw never holds more than one row.
C8_AtMostOneRow ==
    Len(nextDraw) <= 1

C10_BothOrNeither ==
    Called => (Truthy(call.ret[1]) <=> Truthy(call.ret[2]))

\* C11: at no time are two fetches running: a caller that finds the store
\* stale while another caller's fetch runs starts its own fetch only after that
\* one has returned.
C11_OneFetchInFlight ==
    Cardinality(fetching) <= 1

C11_Witness ==
    /\ fetching = {"status"}
    /\ call.who = "job" /\ Len(call.fetched) = 1
    /\ StoreStale

\* the chats of a list
Listed(subs) == {subs[j] : j \in DOMAIN subs}
\* the chats a broadcast has called send_message for
Attempted(k) == {task[k].log[j][1] : j \in DOMAIN task[k].log}
\* the step in which broadcast k reads the recipients, its get_data done
BroadcastStarts(k) ==
    /\ task[k].pc # "sending" /\ task'[k].pc = "sending"
    /\ call'.who = k

\* C12: the list a broadcast sends to is the subscribers table as it is when
\* its get_data has returned, so it holds every chat subscribed by then, also
\* those subscribed after the draw was stored; and a finished broadcast has
\* called send_message for every chat of its list.
C12_EnumeratedAtBroadcast ==
    /\ [][\A k \in Tasks :
            BroadcastStarts(k)
              => /\ task'[k].subs = list_subscribers(subscribers')
                 /\ \A c \in Chats : Subscribed(c) => c \in Listed(task'[k].subs)
                 /\ joined \subseteq Listed(task'[k].subs)]_vars
    /\ [](\A k \in Tasks : task[k].pc = "done" => Listed(task[k].subs) \subseteq Attempted(k))

C12_Witness ==
    /\ task["cmd"].pc = "done"
    /\ call.who = "cmd" /\ call.fetched = <<>>
    /\ joined # {} /\ joined \subseteq Attempted("cmd")

\* the number of entries of chat_id in a list
Entries(subs, chat_id) == Cardinality({j \in DOMAIN subs : subs[j] = chat_id})

\* C13: on every table the program reaches, adding a chat a second time
\* changes nothing and leaves one entry for it in list_subscribers, adding a
\* chat that is subscribed changes nothing, removing a chat that is not
\* subscribed changes nothing, and a second removal changes nothing.
C13_AddRemoveIdempotent ==
    \A c \in Chats :
        LET once == add_subscriber(subscribers, c)
            twice == add_subscriber(once, c)
            out == remove_subscriber(subscribers, c)
        IN  /\ twice = once
            /\ Entries(list_subscribers(twice), c) = 1
            /\ Subscribed(c) => once = subscribers
            /\ ~Subscribed(c) => out = subscribers
            /\ remove_subscriber(out, c) = out
            /\ Entries(list_subscribers(out), c) = 0
            /\ Entries(list_subscribers(subscribers), c) <= 1

C13_Witness ==
    /\ Len(subscribers) = 1
    /\ gone # {}
    /\ \E c \in Chats : Subscribed(c) /\ c \in joined

\* texts and the minute datetime.strptime gives for each after the clean-up of
\* lines 206-207, ParseFail where it raises: the page's texts; "Tue, 01 Jan
\* 2024, 12.30am"; "Thu, 04 Jan 2024, 12:00pm"; " Mon,  01 Jan 2024, 6 .30pm ";
\* "Mon,01 Jan 2024, 6.30pm"; "Mon, 01 Jan 2024, 6.30 pm"; ""; None
ProbeInstants ==
    (D1 :> 1110) @@ (D4 :> 5430) @@ (DBad :> ParseFail)
    @@ (<<"Tue", ",", " ", "01", " ", "Jan", " ", "2024", ",", " ", "12", ".", "30", "am">> :> 30)
    @@ (<<"Thu", ",", " ", "04", " ", "Jan", " ", "2024", ",", " ", "12", ":", "00", "pm">> :> 5040)
    @@ (<<" ", "Mon", ",", " ", " ", "01", " ", "Jan", " ", "2024", ",", " ", "6", " ", ".", "30",
          "pm", " ">> :> 1110)
    @@ (<<"Mon", ",", "01", " ", "Jan", " ", "2024", ",", " ", "6", ".", "30", "pm">> :> ParseFail)
    @@ (<<"Mon", ",", " ", "01", " ", "Jan", " ", "2024", ",", " ", "6", ".", "30", " ", "pm">>
          :> ParseFail)
    @@ (Empty :> ParseFail)
    @@ (None :> ParseFail)

\* C14: at every time the program reaches, is_past_draw of a text is TRUE
\* exactly when the text does not parse or its instant is before now, so a draw
\* due this very minute is not past; and get_data takes a complete stored row
\* for stale in exactly that case.
C14_PastIffUnparsedOrBefore ==
    /\ \A d \in DOMAIN ProbeInstants :
          is_past_draw(d, now) <=> (ProbeInstants[d] = ParseFail \/ ProbeInstants[d] < now)
    /\ \A k \in DOMAIN nextDraw :
          /\ nextDraw[k].next_draw \in DOMAIN ProbeInstants
          /\ k = 1 => (StoreStale <=> \/ ProbeInstants[nextDraw[k].next_draw] = ParseFail
                                      \/ ProbeInstants[nextDraw[k].next_draw] < now)

C14_Witness ==
    /\ nextDraw # <<>> /\ nextDraw[1].next_draw = D1
    /\ now = ProbeInstants[D1]
    /\ ~StoreStale
    /\ Called /\ call.record # None /\ call.fetched = <<>>

\* C15: a get_data call whose fetch yielded a complete draw that is past at
\* the time of the call (or whose text is no date) fetched once, wrote that
\* draw to nextDraw and returned it.
C15_FetchedDrawTrusted ==
    [][(/\ call' # call
        /\ call'.fetched # <<>>
        /\ Complete(call'.fetched[1])
        /\ is_past_draw(call'.fetched[1][2], now))
          => /\ Len(call'.fetched) = 1
             /\ call'.ret = call'.fetched[1]
             /\ call'.fetched[1] \in Rows(nextDraw')
             /\ lastWritten' = <<call'.fetched[1][2], call'.fetched[1][1]>>]_vars

\* the call read the row of D4, found it past and fetched the earlier D1
C15_Witness ==
    /\ Called /\ call.record # None /\ call.record[1] = D4
    /\ \E j \in JackpotTexts : call.fetched = <<<<j, D1>>>> /\ call.ret = <<j, D1>>
    /\ lastWritten[1] = D1

\* C16: a step that changes nextDraw is a get_data call whose fetch yielded a
\* complete draw, and the table it leaves is the old one with that draw
\* written; so a call that served the stored row, or whose fetch failed, leaves
\* nextDraw as it was.  No get_data call changes subscribers.
C16_StoreWrittenOnFetchedDrawOnly ==
    [][/\ nextDraw' # nextDraw
            => /\ call' # call
               /\ Len(call'.fetched) = 1 /\ Complete(call'.fetched[1])
               /\ nextDraw' = store_next_draw(nextDraw, call'.fetched[1][2], call'.fetched[1][1])
       /\ call' # call
            => /\ subscribers' = subscribers
               /\ (call'.fetched = <<>> \/ ~Complete(call'.fetched[1]))
                    => nextDraw' = nextDraw]_vars

\* the job's fetch failed over a stored draw, with every chat subscribed
C16_Witness ==
    /\ call.who = "job" /\ call.fetched = <<FetchFailed>> /\ call.record # None
    /\ get_next_draw(nextDraw) = call.record
    /\ Len(subscribers) = MaxChat

\* Asia/Singapore is UTC+8: the offset in minutes of the zone the page's draw
\* texts are written in
SgtUtcOffset == 480
\* hosts whose local zone is UTC and whose local zone is Asia/Singapore
HostUtcOffsets == {0, SgtUtcOffset}
\* datetime.now() without a tz argument: the wall clock of the host's zone
datetime_now(utc, utcoffset) == utc + utcoffset

\* C17: at one real instant, is_past_draw of a draw text gives the same answer
\* on a host in any time zone as on a host in the operating zone (the state's
\* clock `now` is taken as the Singapore wall clock of the instant).
C17_HostZoneIndependent ==
    \A d \in DrawTexts, off \in HostUtcOffsets :
        is_past_draw(d, datetime_now(now - SgtUtcOffset, off))
          = is_past_draw(d, datetime_now(now - SgtUtcOffset, SgtUtcOffset))

\* C18: a get_data call made while the draw last written to nextDraw is not
\* yet past returns that draw and does not fetch.
C18_LastStoredDrawServed ==
    [][(/\ call' # call
        /\ lastWritten # None
        /\ ~is_past_draw(lastWritten[1], now))
          => /\ call'.ret = <<lastWritten[2], lastWritten[1]>>
             /\ call'.fetched = <<>>]_vars

\* C19: the list a starting broadcast reads holds no chat that was unsubscribed
\* and has not subscribed again, a broadcast calls send_message for chats of
\* its list only, and no step of a broadcast changes the subscribers table,
\* whatever its sends did.
C19_RemovedNotAttempted ==
    /\ [][\A k \in Tasks : BroadcastStarts(k) => Listed(task'[k].subs) \cap gone = {}]_vars
    /\ [](\A k \in Tasks : Attempted(k) \subseteq Listed(task[k].subs))
    /\ [][task' # task => (subscribers' = subscribers /\ gone' = gone)]_vars

\* /broadcast, started after an /unsubscribe, has made all its sends: none to
\* the chat that left, and one that raised to a chat that is still subscribed
C19_Witness ==
    /\ task["cmd"].pc = "sending" /\ task["cmd"].i > Len(task["cmd"].subs)
    /\ gone # {} /\ Attempted("cmd") \cap gone = {}
    /\ \E j \in DOMAIN task["cmd"].log :
          task["cmd"].log[j][2] = FALSE /\ Subscribed(task["cmd"].log[j][1])

\* the (Telegram username, ADMIN_USERNAME setting) pairs that name one account
SameAccount == {<<<<"TotoAdmin">>, <<"totoadmin">>>>}
\* u is the configured admin
ConfiguredAdmin(u) == u # None /\ ADMIN_USERNAME # None /\ <<u, ADMIN_USERNAME>> \in SameAccount
\* a step of the /listsubs or of the /broadcast handler for an update from u
AdminCommandStep(u) ==
    \/ listsubs_cmd(u)
    \/ broadcast_cmd_refused(u)
    \/ \E f \in FetchOutcomes : broadcast_cmd(u, f)

\* C20: a /listsubs or /broadcast step for a user who is not the configured
\* admin starts no send loop, makes no get_data call, writes nothing, and its
\* reply is not the subscriber list; with no admin configured no list is ever
\* shown and no /broadcast loop ever runs.
C20_NonAdminRefused ==
    /\ [][\A u \in Usernames :
            (~ConfiguredAdmin(u) /\ AdminCommandStep(u))
              => /\ task' = task
                 /\ call' = call /\ nextDraw' = nextDraw /\ fetching' = fetching
                 /\ subscribers' = subscribers
                 /\ reply' \in {<<"Unauthorized.">>, Raised}]_vars
    /\ [](ADMIN_USERNAME = None
            => /\ task["cmd"] = Idle /\ call.who # "cmd"
               /\ reply \in {NoReply, <<"Unauthorized.">>, Raised})

\* with no admin configured and every chat subscribed, a user's command raised
C20_Witness ==
    /\ ADMIN_USERNAME = None /\ reply = Raised
    /\ Len(subscribers) = MaxChat
    /\ task["cmd"] = Idle /\ ~Called

====
